---- MODULE Spec2Model ----
(***************************************************************************)
(* Spaced-repetition scheduling (SM-2 variant) and the vocabulary store    *)
(* of base-fastapi: src/services/spaced_repetition.py,                     *)
(* src/services/vocabulary_service.py, src/api/vocabulary.py.              *)
(*                                                                         *)
(* Ease factors are Python floats; they are carried here as exact decimals *)
(* in hundredths (2.5 is 250), so the rounding error of a float addition   *)
(* (2.5 - 0.2 - 0.2 is 2.0999999999999996 in the program) is not modelled. *)
(* Times are integers counted in ticks, TicksPerDay ticks to a day.        *)
(***************************************************************************)
EXTENDS Integers, Sequences, FiniteSets

\* ---------------------------------------------------------------- bounds
TicksPerDay == 2
MaxClock == 1
MaxCount == 12
MaxVocab == 2
MaxSessions == 1
MaxSerialSessions == 3
MaxRaceSessions == 3
MaxItemSessions == 2
MaxReadClock == 3
MaxReadSessions == 1
MaxProgressSessions == 2
MaxPairSessions == 4
MaxLifeSessions == 2
MaxUserId == 4
MaxPurgeSessions == 1
MaxTokens == 2

\* ------------------------------------------- SpacedRepetitionService constants
INITIAL_INTERVAL == 1
EASY_FACTOR == 250
MIN_EASE_FACTOR == 130
MAX_EASE_FACTOR == 250
HARD_DELTA == 20
EASY_DELTA == 15

PERFORMANCE_AGAIN == 0
PERFORMANCE_HARD == 1
PERFORMANCE_GOOD == 2
PERFORMANCE_EASY == 3

PROFICIENCY_NEW == 0
PROFICIENCY_LEARNING == 1
PROFICIENCY_FAMILIAR == 2
PROFICIENCY_MASTERED == 3

\* ------------------------------------------------------------ pure helpers
Min2(a, b) == IF a <= b THEN a ELSE b
Max2(a, b) == IF a >= b THEN a ELSE b

\* timedelta(days=n) in ticks
timedelta(days) == days * TicksPerDay

\* Python int(x) of the product count * ease (ease in hundredths): truncation
\* toward zero.
int_of(hundredths) ==
    IF hundredths >= 0 THEN hundredths \div 100 ELSE -((-hundredths) \div 100)

\* as calculate_ease_factor, without the lower clamp
calculate_ease_factor_no_min(performance_score, current_ease_factor) ==
    LET new_ease_factor ==
            IF performance_score = PERFORMANCE_HARD
            THEN current_ease_factor - HARD_DELTA
            ELSE IF performance_score = PERFORMANCE_GOOD
            THEN current_ease_factor
            ELSE IF performance_score = PERFORMANCE_EASY
            THEN current_ease_factor + EASY_DELTA
            ELSE current_ease_factor
    IN  Min2(MAX_EASE_FACTOR, new_ease_factor)

calculate_ease_factor(performance_score, current_ease_factor) ==
    LET new_ease_factor ==
            IF performance_score = PERFORMANCE_HARD
            THEN current_ease_factor - HARD_DELTA
            ELSE IF performance_score = PERFORMANCE_GOOD
            THEN current_ease_factor
            ELSE IF performance_score = PERFORMANCE_EASY
            THEN current_ease_factor + EASY_DELTA
            ELSE current_ease_factor
    IN  Max2(MIN_EASE_FACTOR, Min2(MAX_EASE_FACTOR, new_ease_factor))

\* as review_interval, without the two fixed first intervals
review_interval_product(review_count, new_ease_factor) ==
    int_of(review_count * new_ease_factor)

\* as review_interval, with every interval after the second being six days
\* times the ease factor
review_interval_from_six(review_count, new_ease_factor) ==
    IF review_count = 0 THEN 1
    ELSE IF review_count = 1 THEN 6
    ELSE int_of(6 * new_ease_factor)

review_interval(review_count, new_ease_factor) ==
    IF review_count = 0 THEN 1
    ELSE IF review_count = 1 THEN 6
    ELSE int_of(review_count * new_ease_factor)

\* as calculate_next_review, with the ease factor lowered on "again" too
calculate_next_review_decay(performance_score, current_ease_factor, review_count, now) ==
    LET new_ease_factor ==
            calculate_ease_factor(
                IF performance_score = PERFORMANCE_AGAIN
                THEN PERFORMANCE_HARD ELSE performance_score,
                current_ease_factor)
    IN  IF performance_score = PERFORMANCE_AGAIN
        THEN [next_review |-> now + timedelta(INITIAL_INTERVAL),
              new_ease_factor |-> new_ease_factor,
              new_review_count |-> 0]
        ELSE [next_review |->
                  now + timedelta(review_interval(review_count, new_ease_factor)),
              new_ease_factor |-> new_ease_factor,
              new_review_count |-> review_count + 1]

\* as calculate_next_review, with "again" leaving the count as it is
calculate_next_review_keep_count(performance_score, current_ease_factor, review_count, now) ==
    IF performance_score = PERFORMANCE_AGAIN
    THEN [next_review |-> now + timedelta(INITIAL_INTERVAL),
          new_ease_factor |-> current_ease_factor,
          new_review_count |-> review_count]
    ELSE LET new_ease_factor ==
                 calculate_ease_factor(performance_score, current_ease_factor)
         IN  [next_review |->
                  now + timedelta(review_interval(review_count, new_ease_factor)),
              new_ease_factor |-> new_ease_factor,
              new_review_count |-> review_count + 1]

\* as calculate_next_review, with the interval taken from the ease factor
\* as it was before the review
calculate_next_review_old_ease(performance_score, current_ease_factor, review_count, now) ==
    IF performance_score = PERFORMANCE_AGAIN
    THEN [next_review |-> now + timedelta(INITIAL_INTERVAL),
          new_ease_factor |-> current_ease_factor,
          new_review_count |-> 0]
    ELSE [next_review |->
              now + timedelta(review_interval(review_count, current_ease_factor)),
          new_ease_factor |->
              calculate_ease_factor(performance_score, current_ease_factor),
          new_review_count |-> review_count + 1]

\* Returns (next_review_date, new_ease_factor, new_review_count) as a record.
calculate_next_review(performance_score, current_ease_factor, review_count, now) ==
    IF performance_score = PERFORMANCE_AGAIN
    THEN [next_review |-> now + timedelta(INITIAL_INTERVAL),
          new_ease_factor |-> current_ease_factor,
          new_review_count |-> 0]
    ELSE LET new_ease_factor ==
                 calculate_ease_factor(performance_score, current_ease_factor)
         IN  [next_review |->
                  now + timedelta(review_interval(review_count, new_ease_factor)),
              new_ease_factor |-> new_ease_factor,
              new_review_count |-> review_count + 1]

\* as get_proficiency_level, without the FAMILIAR band
get_proficiency_level_no_familiar(review_count, ease_factor) ==
    IF review_count = 0 THEN PROFICIENCY_NEW
    ELSE IF review_count < 5 THEN PROFICIENCY_LEARNING
    ELSE PROFICIENCY_MASTERED

get_proficiency_level(review_count, ease_factor) ==
    IF review_count = 0 THEN PROFICIENCY_NEW
    ELSE IF review_count < 5 THEN PROFICIENCY_LEARNING
    ELSE IF review_count < 10 THEN PROFICIENCY_FAMILIAR
    ELSE PROFICIENCY_MASTERED

\* The values update_review_performance assigns to a loaded row.
new_review_values(spaced_rep, performance_score, now) ==
    LET r == calculate_next_review(performance_score, spaced_rep.ease_factor,
                                   spaced_rep.review_count, now)
    IN  [spaced_rep EXCEPT
            !.next_review_date = r.next_review,
            !.ease_factor = r.new_ease_factor,
            !.review_count = r.new_review_count,
            !.proficiency_level =
                get_proficiency_level(r.new_review_count, r.new_ease_factor)]

\* ------------------------------------------------------------------ inputs
Users == {1, 2}
Workers == {1, 2}
Words == {"", "cat"}
\* request bodies of POST /vocabulary/{id}/review: <<performance_score, time_spent>>
ReviewRequests == {<<0, 7>>, <<1, 7>>, <<2, 7>>, <<3, 7>>, <<5, 7>>, <<2, -1>>}

\* RoleEnum (core/enums.py): ADMIN is the role id that User.is_admin tests for
RoleEnum_ADMIN == 1
RoleEnum_USER == 2
\* table roles, as RoleSeeder fills it; no request changes it
roles == {RoleEnum_ADMIN, RoleEnum_USER}
None == 0

\* a row of table users (password and full_name play no part in any check)
User(id, email, username, role_id) ==
    [id |-> id, email |-> email, username |-> username, role_id |-> role_id,
     is_active |-> TRUE]

\* UserSeeder: one admin and one regular user
seeded_users ==
    {User(1, "admin@example.com", "admin", RoleEnum_ADMIN),
     User(2, "user@example.com", "user", RoleEnum_USER)}

\* the "sub" of the bearer token of a request; 0 is a token that does not decode
Subs == {0, 1, 2, 3}
\* request bodies of POST /users/ and POST /auth/register
Emails == {"user@example.com", "ann@example.com", "bob@example.com"}
Usernames == {"user", "ann", "bob"}
RoleIds == {None, RoleEnum_ADMIN, 3}

VARIABLES
    vocabulary,         \* table vocabulary: rows [id, user_id, word_phrase]
    examples,           \* table examples: rows [id, vocabulary_id]
    spaced_repetition,  \* table spaced_repetition
    review_sessions,    \* table review_sessions, in insertion (id) order
    autoinc,            \* next AUTO_INCREMENT id of vocabulary/examples/spaced_repetition
    clock,              \* datetime.utcnow(), in ticks
    req,                \* per worker: the request being handled and its locals
    resp,               \* the HTTP response sent by the step just taken, if any
    submitted,          \* history: successful review submissions per (user, item)
    calc,               \* input and output of one recordReview evaluation
    users,              \* table users: rows [id, email, username, role_id, is_active]
    users_autoinc,      \* next AUTO_INCREMENT id of users
    refresh_tokens,     \* table refresh_tokens: rows [user_id, token, expires_at, is_revoked]
    issued              \* the tokens the login responses have handed to the clients

vars == <<vocabulary, examples, spaced_repetition, review_sessions, autoinc,
          clock, req, resp, submitted, calc, users, users_autoinc,
          refresh_tokens, issued>>

accounts == <<users, users_autoinc, refresh_tokens, issued>>

tables == <<vocabulary, examples, spaced_repetition, review_sessions, autoinc>>

VocabIds == 1..(MaxVocab + 1)
NoRow == [id |-> 0]
Idle == [pc |-> "idle", user_id |-> 0, vocabulary_id |-> 0, word_phrase |-> "",
         performance_score |-> 0, time_spent |-> 0, row |-> NoRow]
NoCalc == [phase |-> "none"]

Response(op, status, performance_score, time_spent) ==
    [op |-> op, status |-> status, performance_score |-> performance_score,
     time_spent |-> time_spent]

NoResponse == Response("none", 0, 0, 0)

\* A request is handled by the lowest-numbered worker that is free.
Free(w) ==
    /\ req[w].pc = "idle"
    /\ \A o \in Workers : o < w => req[o].pc # "idle"

InFlight(pcs) == Cardinality({w \in Workers : req[w].pc \in pcs})

\* as ReviewPerformanceRequest, without the upper limit of the score
ReviewPerformanceRequest_no_le(performance_score, time_spent) ==
    /\ performance_score >= 0
    /\ time_spent >= 0

\* ReviewPerformanceRequest: performance_score ge=0 le=3, time_spent ge=0
ReviewPerformanceRequest(performance_score, time_spent) ==
    /\ performance_score >= 0
    /\ performance_score <= 3
    /\ time_spent >= 0

\* SaveVocabularyRequest: word_phrase min_length=1
SaveVocabularyRequest(word_phrase) == word_phrase # ""

\* query(...).filter(...).first(): the matching row of lowest id, or NoRow
first(rows) ==
    IF rows = {} THEN NoRow
    ELSE CHOOSE r \in rows : \A o \in rows : r.id <= o.id

Init ==
    /\ vocabulary = {}
    /\ examples = {}
    /\ spaced_repetition = {}
    /\ review_sessions = <<>>
    /\ autoinc = 1
    /\ clock = 0
    /\ req = [w \in Workers |-> Idle]
    /\ resp = NoResponse
    /\ submitted = [p \in Users \X VocabIds |-> 0]
    /\ calc = NoCalc
    /\ users = seeded_users
    /\ users_autoinc = 3
    /\ refresh_tokens = {}
    /\ issued = {}

\* The clock advances.
Tick ==
    /\ clock < MaxClock
    /\ clock' = clock + 1
    /\ resp' = NoResponse
    /\ UNCHANGED <<tables, req, submitted, calc>>
    /\ UNCHANGED accounts

\* ------------------------------------------------------- POST /vocabulary/save
\* as create_spaced_repetition_record, with its two arguments exchanged
create_spaced_repetition_record_swapped(id, user_id, vocabulary_id, now) ==
    [id |-> id,
     vocabulary_id |-> user_id,
     user_id |-> vocabulary_id,
     proficiency_level |-> PROFICIENCY_NEW,
     next_review_date |-> now + timedelta(INITIAL_INTERVAL),
     review_count |-> 0,
     ease_factor |-> EASY_FACTOR]

\* as create_spaced_repetition_record, with the first review due at once
create_spaced_repetition_record_due_now(id, user_id, vocabulary_id, now) ==
    [id |-> id,
     vocabulary_id |-> vocabulary_id,
     user_id |-> user_id,
     proficiency_level |-> PROFICIENCY_NEW,
     next_review_date |-> now,
     review_count |-> 0,
     ease_factor |-> EASY_FACTOR]

create_spaced_repetition_record(id, user_id, vocabulary_id, now) ==
    [id |-> id,
     vocabulary_id |-> vocabulary_id,
     user_id |-> user_id,
     proficiency_level |-> PROFICIENCY_NEW,
     next_review_date |-> now + timedelta(INITIAL_INTERVAL),
     review_count |-> 0,
     ease_factor |-> EASY_FACTOR]

\* Request validation and the existence check (vocabulary_service.py 45-54).
save_vocabulary_check(w, user_id, word_phrase) ==
    /\ Free(w)
    /\ IF ~SaveVocabularyRequest(word_phrase)
       THEN /\ resp' = Response("save", 422, 0, 0)
            /\ UNCHANGED req
       ELSE IF \E voc \in vocabulary :
                   voc.user_id = user_id /\ voc.word_phrase = word_phrase
       THEN /\ resp' = Response("save", 400, 0, 0)
            /\ UNCHANGED req
       ELSE /\ req' = [req EXCEPT ![w] = [Idle EXCEPT !.pc = "save",
                           !.user_id = user_id, !.word_phrase = word_phrase]]
            /\ resp' = NoResponse
    /\ UNCHANGED <<tables, clock, submitted, calc>>
    /\ UNCHANGED accounts

\* The three inserts, committed together by create_spaced_repetition_record
\* (vocabulary_service.py 56-82).
save_vocabulary_commit(w) ==
    /\ req[w].pc = "save"
    /\ vocabulary' = vocabulary \cup
           {[id |-> autoinc, user_id |-> req[w].user_id,
             word_phrase |-> req[w].word_phrase]}
    /\ examples' = examples \cup {[id |-> autoinc, vocabulary_id |-> autoinc]}
    /\ spaced_repetition' = spaced_repetition \cup
           {create_spaced_repetition_record(autoinc, req[w].user_id, autoinc, clock)}
    /\ autoinc' = autoinc + 1
    /\ req' = [req EXCEPT ![w] = Idle]
    /\ resp' = Response("save", 200, 0, 0)
    /\ UNCHANGED <<review_sessions, clock, submitted, calc>>
    /\ UNCHANGED accounts

\* A database error before the commit: rollback, 500
\* (vocabulary_service.py 107-110).
save_vocabulary_error(w) ==
    /\ req[w].pc = "save"
    /\ req' = [req EXCEPT ![w] = Idle]
    /\ resp' = Response("save", 500, 0, 0)
    /\ UNCHANGED <<tables, clock, submitted, calc>>
    /\ UNCHANGED accounts

\* ------------------------------------------ POST /vocabulary/{id}/review
\* as update_review_performance_load, with the row looked up by item alone
update_review_performance_load_any_user(w, user_id, vocabulary_id, performance_score, time_spent) ==
    /\ Free(w)
    /\ IF ~ReviewPerformanceRequest(performance_score, time_spent)
       THEN /\ resp' = Response("review", 422, performance_score, time_spent)
            /\ UNCHANGED req
       ELSE LET spaced_rep == first({sr \in spaced_repetition :
                                  sr.vocabulary_id = vocabulary_id})
            IN  IF spaced_rep = NoRow
                THEN /\ resp' = Response("review", 404, 0, 0)
                     /\ UNCHANGED req
                ELSE /\ req' = [req EXCEPT ![w] = [Idle EXCEPT !.pc = "review",
                                   !.user_id = user_id,
                                   !.vocabulary_id = vocabulary_id,
                                   !.performance_score = performance_score,
                                   !.time_spent = time_spent,
                                   !.row = spaced_rep]]
                     /\ resp' = NoResponse
    /\ UNCHANGED <<tables, clock, submitted, calc>>
    /\ UNCHANGED accounts

\* Request validation and the load of the row (spaced_repetition.py 164-171).
update_review_performance_load(w, user_id, vocabulary_id, performance_score, time_spent) ==
    /\ Free(w)
    /\ IF ~ReviewPerformanceRequest(performance_score, time_spent)
       THEN /\ resp' = Response("review", 422, performance_score, time_spent)
            /\ UNCHANGED req
       ELSE LET spaced_rep == first({sr \in spaced_repetition :
                                  /\ sr.user_id = user_id
                                  /\ sr.vocabulary_id = vocabulary_id})
            IN  IF spaced_rep = NoRow
                THEN /\ resp' = Response("review", 404, 0, 0)
                     /\ UNCHANGED req
                ELSE /\ req' = [req EXCEPT ![w] = [Idle EXCEPT !.pc = "review",
                                   !.user_id = user_id,
                                   !.vocabulary_id = vocabulary_id,
                                   !.performance_score = performance_score,
                                   !.time_spent = time_spent,
                                   !.row = spaced_rep]]
                     /\ resp' = NoResponse
    /\ UNCHANGED <<tables, clock, submitted, calc>>
    /\ UNCHANGED accounts

\* The UPDATE the session flushes for a modified object: it sets the columns
\* whose assigned value differs from the loaded one, on the row as it now is.
orm_update(current, loaded, assigned) ==
    [c \in DOMAIN current |->
        IF assigned[c] # loaded[c] THEN assigned[c] ELSE current[c]]

\* as ReviewSession, with time_spent left at its column default
ReviewSession_default_time(user_id, vocabulary_id, performance_score, time_spent, now) ==
    [user_id |-> user_id, vocabulary_id |-> vocabulary_id,
     session_date |-> now, performance_score |-> performance_score,
     time_spent |-> 0]

ReviewSession(user_id, vocabulary_id, performance_score, time_spent, now) ==
    [user_id |-> user_id, vocabulary_id |-> vocabulary_id,
     session_date |-> now, performance_score |-> performance_score,
     time_spent |-> time_spent]

\* as update_review_performance_commit, with an UPDATE that names no row
update_review_performance_commit_every_row(w) ==
    /\ req[w].pc = "review"
    /\ LET loaded == req[w].row
           assigned == new_review_values(loaded, req[w].performance_score, clock)
       IN  /\ spaced_repetition' =
                  {orm_update(sr, loaded, assigned) : sr \in spaced_repetition}
           /\ review_sessions' = Append(review_sessions,
                  ReviewSession(req[w].user_id, req[w].vocabulary_id,
                      req[w].performance_score, req[w].time_spent, clock))
           /\ submitted' = [submitted EXCEPT
                  ![<<req[w].user_id, req[w].vocabulary_id>>] = @ + 1]
           /\ resp' = Response("review", 200, 0, 0)
    /\ req' = [req EXCEPT ![w] = Idle]
    /\ UNCHANGED <<vocabulary, examples, autoinc, clock, calc>>
    /\ UNCHANGED accounts

\* The computation, the UPDATE, the INSERT and the commit
\* (spaced_repetition.py 173-198).
update_review_performance_commit(w) ==
    /\ req[w].pc = "review"
    /\ LET loaded == req[w].row
           stored == {sr \in spaced_repetition : sr.id = loaded.id}
       IN  IF stored = {}
           THEN \* the row was deleted meanwhile: the flush fails
                /\ resp' = Response("review", 500, 0, 0)
                /\ UNCHANGED <<spaced_repetition, review_sessions, submitted>>
           ELSE LET current == CHOOSE sr \in stored : TRUE
                    assigned == new_review_values(loaded,
                                    req[w].performance_score, clock)
                IN  /\ spaced_repetition' =
                           (spaced_repetition \ {current})
                               \cup {orm_update(current, loaded, assigned)}
                    /\ review_sessions' = Append(review_sessions,
                           ReviewSession(req[w].user_id, req[w].vocabulary_id,
                               req[w].performance_score, req[w].time_spent, clock))
                    /\ submitted' = [submitted EXCEPT
                           ![<<req[w].user_id, req[w].vocabulary_id>>] = @ + 1]
                    /\ resp' = Response("review", 200, 0, 0)
    /\ req' = [req EXCEPT ![w] = Idle]
    /\ UNCHANGED <<vocabulary, examples, autoinc, clock, calc>>
    /\ UNCHANGED accounts

\* ------------------------------------------------ DELETE /vocabulary/{id}
\* The load of the item (vocabulary_service.py 283-291).
delete_vocabulary_load(w, user_id, vocabulary_id) ==
    /\ Free(w)
    /\ LET voc == first({v \in vocabulary :
                       v.id = vocabulary_id /\ v.user_id = user_id})
       IN  IF voc = NoRow
           THEN /\ resp' = Response("delete", 404, 0, 0)
                /\ UNCHANGED req
           ELSE /\ req' = [req EXCEPT ![w] = [Idle EXCEPT !.pc = "delete",
                              !.user_id = user_id,
                              !.vocabulary_id = vocabulary_id, !.row = voc]]
                /\ resp' = NoResponse
    /\ UNCHANGED <<tables, clock, submitted, calc>>
    /\ UNCHANGED accounts

\* as delete_vocabulary_commit, without the cascade to spaced_repetition
delete_vocabulary_commit_no_cascade(w) ==
    /\ req[w].pc = "delete"
    /\ LET id == req[w].row.id
       IN  IF \E i \in 1..Len(review_sessions) : review_sessions[i].vocabulary_id = id
           THEN /\ resp' = Response("delete", 500, 0, 0)
                /\ UNCHANGED <<vocabulary, examples>>
           ELSE /\ vocabulary' = {v \in vocabulary : v.id # id}
                /\ examples' = {e \in examples : e.vocabulary_id # id}
                /\ resp' = Response("delete", 200, 0, 0)
    /\ req' = [req EXCEPT ![w] = Idle]
    /\ UNCHANGED <<spaced_repetition, review_sessions, autoinc, clock,
                   submitted, calc>>
    /\ UNCHANGED accounts

\* db.delete(vocabulary) with its cascades, then commit
\* (vocabulary_service.py 293-302; models/vocabulary.py 22-23, 66).
delete_vocabulary_commit(w) ==
    /\ req[w].pc = "delete"
    /\ LET id == req[w].row.id
       IN  IF \E i \in 1..Len(review_sessions) : review_sessions[i].vocabulary_id = id
           THEN \* review_sessions.vocabulary_id still references the item
                /\ resp' = Response("delete", 500, 0, 0)
                /\ UNCHANGED <<vocabulary, examples, spaced_repetition>>
           ELSE /\ vocabulary' = {v \in vocabulary : v.id # id}
                /\ examples' = {e \in examples : e.vocabulary_id # id}
                /\ spaced_repetition' =
                       {sr \in spaced_repetition : sr.vocabulary_id # id}
                /\ resp' = Response("delete", 200, 0, 0)
    /\ req' = [req EXCEPT ![w] = Idle]
    /\ UNCHANGED <<review_sessions, autoinc, clock, submitted, calc>>
    /\ UNCHANGED accounts

\* --------------------------------------------- GET /vocabulary/today-review
\* datetime.date(): the day of a time; as a bound of a DATETIME comparison it
\* is the midnight that begins the day.
date(t) == (t \div TicksPerDay) * TicksPerDay

\* The answer of a read: the user, the time of the query and the data.
ReadResponse(op, user_id, now, data) ==
    [op |-> op, status |-> 200, user_id |-> user_id, now |-> now, data |-> data]

\* as get_today_reviews, with the end of the current day as the limit
get_today_reviews_end_of_day(user_id, now) ==
    LET today == date(now) + timedelta(1)
        spaced_reps == {sr \in spaced_repetition :
                           /\ sr.user_id = user_id
                           /\ sr.next_review_date <= today}
        vocabulary_ids == {sr.vocabulary_id : sr \in spaced_reps}
    IN  {voc \in vocabulary : voc.id \in vocabulary_ids}

\* get_today_reviews (spaced_repetition.py 200-221): the rows of vocabulary
\* whose id is the vocabulary_id of a row of the user with
\* next_review_date <= today.
get_today_reviews(user_id, now) ==
    LET today == date(now)
        spaced_reps == {sr \in spaced_repetition :
                           /\ sr.user_id = user_id
                           /\ sr.next_review_date <= today}
        vocabulary_ids == {sr.vocabulary_id : sr \in spaced_reps}
    IN  {voc \in vocabulary : voc.id \in vocabulary_ids}

\* The endpoint: one read transaction (api/vocabulary.py 122-145).
today_review(w, user_id) ==
    /\ Free(w)
    /\ resp' = ReadResponse("today_review", user_id, clock,
                            get_today_reviews(user_id, clock))
    /\ UNCHANGED <<tables, clock, req, submitted, calc>>
    /\ UNCHANGED accounts

\* ------------------------------------------------ GET /vocabulary/dashboard
\* get_dashboard_statistics (spaced_repetition.py 223-260)
get_dashboard_statistics(user_id, now) ==
    LET total_vocabulary ==
            Cardinality({voc \in vocabulary : voc.user_id = user_id})
        proficiency_counts == {sr \in spaced_repetition : sr.user_id = user_id}
        count(level) ==
            Cardinality({sr \in proficiency_counts : sr.proficiency_level = level})
    IN  [total_vocabulary |-> total_vocabulary,
         new |-> count(PROFICIENCY_NEW),
         learning |-> count(PROFICIENCY_LEARNING),
         familiar |-> count(PROFICIENCY_FAMILIAR),
         mastered |-> count(PROFICIENCY_MASTERED),
         today_reviews |-> Cardinality(get_today_reviews(user_id, now))]

\* as dashboard, removing the ReviewStates it has counted
dashboard_consuming(w, user_id) ==
    /\ Free(w)
    /\ resp' = ReadResponse("dashboard", user_id, clock,
                            get_dashboard_statistics(user_id, clock))
    /\ spaced_repetition' = {sr \in spaced_repetition : sr.user_id # user_id}
    /\ UNCHANGED <<vocabulary, examples, review_sessions, autoinc, clock, req,
                   submitted, calc>>
    /\ UNCHANGED accounts

\* The endpoint: one read transaction (api/vocabulary.py 101-119).
dashboard(w, user_id) ==
    /\ Free(w)
    /\ resp' = ReadResponse("dashboard", user_id, clock,
                            get_dashboard_statistics(user_id, clock))
    /\ UNCHANGED <<tables, clock, req, submitted, calc>>
    /\ UNCHANGED accounts

\* ------------------------------ SpacedRepetitionService.get_learning_progress
\* days arguments of get_learning_progress (its default is 30)
ProgressDays == {0, 1, 30}

\* ORDER BY session_date: rows of equal session_date stay in id order
RECURSIVE insert_by_session_date(_, _)
insert_by_session_date(row, sorted) ==
    IF sorted = <<>> THEN <<row>>
    ELSE IF row.session_date < Head(sorted).session_date
         THEN <<row>> \o sorted
         ELSE <<Head(sorted)>> \o insert_by_session_date(row, Tail(sorted))

RECURSIVE order_by_session_date(_)
order_by_session_date(rows) ==
    IF rows = <<>> THEN <<>>
    ELSE insert_by_session_date(rows[Len(rows)],
             order_by_session_date(SubSeq(rows, 1, Len(rows) - 1)))

\* as is_correct, counting every pass
is_correct_pass(session) == session.performance_score >= PERFORMANCE_HARD

\* session.performance_score >= self.PERFORMANCE_GOOD
is_correct(session) == session.performance_score >= PERFORMANCE_GOOD

\* The loop of get_learning_progress over the sessions: daily_data, as the
\* sequence of its values in insertion order.
RECURSIVE daily_data(_)
daily_data(sessions) ==
    IF sessions = <<>> THEN <<>>
    ELSE LET before == daily_data(SubSeq(sessions, 1, Len(sessions) - 1))
             session == sessions[Len(sessions)]
             date_key == date(session.session_date)
             fresh == [date |-> date_key, total_reviews |-> 0,
                       correct_answers |-> 0, time_spent |-> 0]
             data == IF \E i \in 1..Len(before) : before[i].date = date_key
                     THEN before
                     ELSE Append(before, fresh)
         IN  [i \in 1..Len(data) |->
                 IF data[i].date = date_key
                 THEN [date |-> date_key,
                       total_reviews |-> data[i].total_reviews + 1,
                       correct_answers |-> data[i].correct_answers +
                           (IF is_correct(session) THEN 1 ELSE 0),
                       time_spent |-> data[i].time_spent + session.time_spent]
                 ELSE data[i]]

\* get_learning_progress (spaced_repetition.py 262-298)
get_learning_progress(user_id, days, now) ==
    LET start_date == now - timedelta(days)
        sessions == order_by_session_date(
                        SelectSeq(review_sessions,
                            LAMBDA rs : /\ rs.user_id = user_id
                                        /\ rs.session_date >= start_date))
    IN  daily_data(sessions)

\* A call of the service: one read transaction.
learning_progress(w, user_id, days) ==
    /\ Free(w)
    /\ resp' = ReadResponse("learning_progress", user_id, clock,
                    [days |-> days,
                     daily |-> get_learning_progress(user_id, days, clock)])
    /\ UNCHANGED <<tables, clock, req, submitted, calc>>
    /\ UNCHANGED accounts

\* ------------------------------------------------------------ specification
\* Spec: every request of the program, interleaved at the database statements,
\* within one tick of the clock.
SaveCheck == \E w \in Workers, u \in Users, word \in Words :
                 save_vocabulary_check(w, u, word)
SaveCommit == \E w \in Workers :
                 autoinc <= MaxVocab /\ save_vocabulary_commit(w)
SaveError == \E w \in Workers : save_vocabulary_error(w)
ReviewLoad == \E w \in Workers, u \in Users, v \in VocabIds, r \in ReviewRequests :
                 /\ Len(review_sessions) + InFlight({"review"}) < MaxSessions
                 /\ update_review_performance_load(w, u, v, r[1], r[2])
ReviewCommit == \E w \in Workers : update_review_performance_commit(w)
DeleteLoad == \E w \in Workers, u \in Users, v \in VocabIds :
                 delete_vocabulary_load(w, u, v)
DeleteCommit == \E w \in Workers : delete_vocabulary_commit(w)

Next ==
    \/ SaveCheck
    \/ SaveCommit
    \/ SaveError
    \/ ReviewLoad
    \/ ReviewCommit
    \/ DeleteLoad
    \/ DeleteCommit

Spec == Init /\ [][Next]_vars

\* SpecSerial: every request of the program, one request at a time, within
\* one tick of the clock.
AllIdle == \A w \in Workers : req[w].pc = "idle"

SerialSaveCheck == AllIdle /\ SaveCheck
SerialReviewLoad ==
    /\ AllIdle
    /\ \E w \in Workers, u \in Users, v \in VocabIds, r \in ReviewRequests :
           /\ Len(review_sessions) < MaxSerialSessions
           /\ update_review_performance_load(w, u, v, r[1], r[2])
SerialDeleteLoad == AllIdle /\ DeleteLoad

SerialNext ==
    \/ SerialSaveCheck
    \/ SaveCommit
    \/ SaveError
    \/ SerialReviewLoad
    \/ ReviewCommit
    \/ SerialDeleteLoad
    \/ DeleteCommit

SpecSerial == Init /\ [][SerialNext]_vars

\* SpecRace: saves, and well-formed reviews submitted by the owner of an item,
\* interleaved at the database statements, within one tick of the clock.
RaceSaveCheck == \E w \in Workers, u \in Users, word \in Words :
                     /\ SaveVocabularyRequest(word)
                     /\ save_vocabulary_check(w, u, word)
RaceReviewLoad == \E w \in Workers, sr \in spaced_repetition, r \in ReviewRequests :
                     /\ ReviewPerformanceRequest(r[1], r[2])
                     /\ Len(review_sessions) + InFlight({"review"}) < MaxRaceSessions
                     /\ update_review_performance_load(w, sr.user_id,
                            sr.vocabulary_id, r[1], r[2])

RaceNext ==
    \/ RaceSaveCheck
    \/ SaveCommit
    \/ RaceReviewLoad
    \/ ReviewCommit

SpecRace == Init /\ [][RaceNext]_vars

\* SpecItem: the reviews and deletes of two saved items and of an item that
\* does not exist, by the owner and by the other user, interleaved at the
\* database statements, from the state that a first save by each user leaves.
ItemInit ==
    /\ vocabulary = {[id |-> 1, user_id |-> 1, word_phrase |-> "cat"],
                     [id |-> 2, user_id |-> 2, word_phrase |-> "cat"]}
    /\ examples = {[id |-> 1, vocabulary_id |-> 1], [id |-> 2, vocabulary_id |-> 2]}
    /\ spaced_repetition = {create_spaced_repetition_record(1, 1, 1, 0),
                            create_spaced_repetition_record(2, 2, 2, 0)}
    /\ review_sessions = <<>>
    /\ autoinc = 3
    /\ clock = 0
    /\ req = [w \in Workers |-> Idle]
    /\ resp = Response("save", 200, 0, 0)
    /\ submitted = [p \in Users \X VocabIds |-> 0]
    /\ calc = NoCalc
    /\ users = seeded_users
    /\ users_autoinc = 3
    /\ refresh_tokens = {}
    /\ issued = {}

ItemReviewLoad == \E w \in Workers, u \in Users, v \in VocabIds, r \in ReviewRequests :
                     /\ Len(review_sessions) + InFlight({"review"}) < MaxItemSessions
                     /\ update_review_performance_load(w, u, v, r[1], r[2])

ItemNext ==
    \/ ItemReviewLoad
    \/ ReviewCommit
    \/ DeleteLoad
    \/ DeleteCommit

SpecItem == ItemInit /\ [][ItemNext]_vars

\* SpecRead: the reviews, the deletes and the reads of two saved items, one
\* request at a time, over several days, from the state that a first save by
\* each user leaves.
DayTick ==
    /\ clock < MaxReadClock
    /\ clock' = clock + 1
    /\ resp' = NoResponse
    /\ UNCHANGED <<tables, req, submitted, calc>>
    /\ UNCHANGED accounts

ReadReviewLoad ==
    /\ AllIdle
    /\ \E w \in Workers, u \in Users, v \in VocabIds, r \in ReviewRequests :
           /\ Len(review_sessions) < MaxReadSessions
           /\ update_review_performance_load(w, u, v, r[1], r[2])

TodayReview == \E w \in Workers, u \in Users : AllIdle /\ today_review(w, u)

Dashboard == \E w \in Workers, u \in Users : AllIdle /\ dashboard(w, u)

LearningProgress == \E w \in Workers, u \in Users, days \in ProgressDays :
                        AllIdle /\ learning_progress(w, u, days)

ReadNext ==
    \/ DayTick
    \/ ReadReviewLoad
    \/ ReviewCommit
    \/ SerialDeleteLoad
    \/ DeleteCommit
    \/ TodayReview
    \/ Dashboard
    \/ LearningProgress

SpecRead == ItemInit /\ [][ReadNext]_vars

\* SpecProgress: well-formed reviews of two saved items by their owners and
\* the progress report, one request at a time, over several days.
ProgressReviewLoad ==
    /\ AllIdle
    /\ \E w \in Workers, sr \in spaced_repetition, r \in ReviewRequests :
           /\ ReviewPerformanceRequest(r[1], r[2])
           /\ Len(review_sessions) < MaxProgressSessions
           /\ update_review_performance_load(w, sr.user_id, sr.vocabulary_id,
                  r[1], r[2])

ProgressNext ==
    \/ DayTick
    \/ ProgressReviewLoad
    \/ ReviewCommit
    \/ LearningProgress

SpecProgress == ItemInit /\ [][ProgressNext]_vars

\* SpecPairs: well-formed reviews of two saved items by their owners,
\* interleaved at the database statements, with at most one review of a
\* (user, item) pair in progress at a time.
PairReviewLoad ==
    \E w \in Workers, sr \in spaced_repetition, r \in ReviewRequests :
        /\ ReviewPerformanceRequest(r[1], r[2])
        /\ Len(review_sessions) + InFlight({"review"}) < MaxPairSessions
        /\ \A o \in Workers :
               req[o].pc = "review" =>
                   <<req[o].user_id, req[o].vocabulary_id>>
                       # <<sr.user_id, sr.vocabulary_id>>
        /\ update_review_performance_load(w, sr.user_id, sr.vocabulary_id,
               r[1], r[2])

PairsNext ==
    \/ PairReviewLoad
    \/ ReviewCommit

SpecPairs == ItemInit /\ [][PairsNext]_vars

\* SpecLife: the reviews, the deletes and the reads of two saved items and of
\* an item that does not exist, by the owner and by the other user,
\* interleaved at the database statements, within one tick of the clock.
LifeReviewLoad == \E w \in Workers, u \in Users, v \in VocabIds, r \in ReviewRequests :
                     /\ Len(review_sessions) + InFlight({"review"}) < MaxLifeSessions
                     /\ update_review_performance_load(w, u, v, r[1], r[2])

LifeRead == \E w \in Workers, u \in Users :
                \/ today_review(w, u)
                \/ dashboard(w, u)
                \/ \E days \in ProgressDays : learning_progress(w, u, days)

LifeNext ==
    \/ LifeReviewLoad
    \/ ReviewCommit
    \/ DeleteLoad
    \/ DeleteCommit
    \/ LifeRead

SpecLife == ItemInit /\ [][LifeNext]_vars

\* SpecEngine: one ReviewState from its creation on, reviewed again and again.
\* What calc keeps of the evaluation before the current one: its score, the
\* ease factor it was given, the one it returned, and the days it scheduled.
NoReview == [performance_score |-> 0, current_ease_factor |-> 0,
             new_ease_factor |-> 0, interval |-> 0]

LastReview ==
    [performance_score |-> calc.performance_score,
     current_ease_factor |-> calc.before.ease_factor,
     new_ease_factor |-> calc.state.ease_factor,
     interval |-> (calc.state.next_review_date - calc.now) \div TicksPerDay]

EngineInit ==
    /\ vocabulary = {}
    /\ examples = {}
    /\ spaced_repetition = {}
    /\ review_sessions = <<>>
    /\ autoinc = 1
    /\ clock \in 0..MaxClock
    /\ req = [w \in Workers |-> Idle]
    /\ resp = NoResponse
    /\ submitted = [p \in Users \X VocabIds |-> 0]
    /\ calc = [phase |-> "initialized",
               state |-> create_spaced_repetition_record(1, 1, 1, clock),
               before |-> create_spaced_repetition_record(1, 1, 1, clock),
               performance_score |-> 0,
               now |-> clock,
               previous |-> NoReview]
    /\ users = seeded_users
    /\ users_autoinc = 3
    /\ refresh_tokens = {}
    /\ issued = {}

\* The ReviewState is created anew, at the current time.
initialize ==
    /\ calc' = [phase |-> "initialized",
                state |-> create_spaced_repetition_record(1, 1, 1, clock),
                before |-> create_spaced_repetition_record(1, 1, 1, clock),
                performance_score |-> 0,
                now |-> clock,
                previous |-> NoReview]
    /\ UNCHANGED <<tables, clock, req, resp, submitted>>
    /\ UNCHANGED accounts

recordReview(performance_score) ==
    /\ calc.state.review_count < MaxCount
    /\ calc' = [phase |-> "reviewed",
                state |-> new_review_values(calc.state, performance_score, clock),
                before |-> calc.state,
                performance_score |-> performance_score,
                now |-> clock,
                previous |-> IF calc.phase = "reviewed" THEN LastReview
                             ELSE NoReview]
    /\ UNCHANGED <<tables, clock, req, resp, submitted>>
    /\ UNCHANGED accounts

EngineReview == \E r \in ReviewRequests :
                    /\ ReviewPerformanceRequest(r[1], r[2])
                    /\ recordReview(r[1])

EngineNext ==
    \/ Tick
    \/ initialize
    \/ EngineReview

SpecEngine == EngineInit /\ [][EngineNext]_vars

\* ---------------------------------------------------------------- POST /users/

\* the response of a users request, with the request it answers
UserResponse(op, status, message, sub, email, username, role_id) ==
    [op |-> op, status |-> status, message |-> message, sub |-> sub,
     email |-> email, username |-> username, role_id |-> role_id]

\* User.is_admin
is_admin(user) == user.role_id = 1

\* get_current_active_user: the stored user the token names, or the refusal
get_current_active_user(sub) ==
    IF sub = 0
    THEN [status |-> 403, message |-> "Could not validate credentials", user |-> NoRow]
    ELSE LET user == first({u \in users : u.id = sub})
         IN  IF user = NoRow
             THEN [status |-> 401, message |-> "User not found", user |-> NoRow]
             ELSE IF ~user.is_active
             THEN [status |-> 401, message |-> "Inactive user", user |-> NoRow]
             ELSE [status |-> 200, message |-> "", user |-> user]

\* UserCreate: the validators in field order (email, username, role_id); the
\* first one that raises decides the message, "" when the body is accepted
UserCreate(email, username, role_id) ==
    IF \E u \in users : u.email = email THEN "email already exists"
    ELSE IF \E u \in users : u.username = username THEN "username already exists"
    ELSE IF role_id # None /\ role_id \notin roles THEN "Role not found"
    ELSE ""

\* the request is handed to user_service.create_user
call_create_user(w, op, sub, email, username, role_id) ==
    /\ req' = [req EXCEPT ![w] = [pc |-> "create_user", op |-> op, sub |-> sub,
                                  email |-> email, username |-> username,
                                  role_id |-> role_id]]
    /\ resp' = NoResponse

\* as create_user, without the test of current_user.is_admin
create_user_any_caller(w, sub, email, username, role_id) ==
    /\ Free(w)
    /\ users_autoinc + InFlight({"create_user"}) <= MaxUserId
    /\ LET current_user == get_current_active_user(sub)
           invalid == UserCreate(email, username, role_id)
           refuse(status, message) ==
               /\ resp' = UserResponse("create_user", status, message, sub,
                                       email, username, role_id)
               /\ UNCHANGED req
       IN  IF current_user.status # 200
           THEN refuse(current_user.status, current_user.message)
           ELSE IF invalid # ""
           THEN refuse(422, invalid)
           ELSE call_create_user(w, "create_user", sub, email, username, role_id)
    /\ UNCHANGED <<tables, clock, submitted, calc, accounts>>

\* POST /users/ up to the call of the service: the dependency
\* get_current_active_user, then the validation of the body, then the handler's
\* test of current_user.is_admin.
create_user(w, sub, email, username, role_id) ==
    /\ Free(w)
    /\ users_autoinc + InFlight({"create_user"}) <= MaxUserId
    /\ LET current_user == get_current_active_user(sub)
           invalid == UserCreate(email, username, role_id)
           refuse(status, message) ==
               /\ resp' = UserResponse("create_user", status, message, sub,
                                       email, username, role_id)
               /\ UNCHANGED req
       IN  IF current_user.status # 200
           THEN refuse(current_user.status, current_user.message)
           ELSE IF invalid # ""
           THEN refuse(422, invalid)
           ELSE IF ~is_admin(current_user.user)
           THEN refuse(401, "You are not authorized to create a user")
           ELSE call_create_user(w, "create_user", sub, email, username, role_id)
    /\ UNCHANGED <<tables, clock, submitted, calc, accounts>>

\* POST /auth/register up to the call of the service: the validation of the
\* body, then the handler's own look-up of the email.
register(w, email, username, role_id) ==
    /\ Free(w)
    /\ users_autoinc + InFlight({"create_user"}) <= MaxUserId
    /\ LET invalid == UserCreate(email, username, role_id)
           refuse(status, message) ==
               /\ resp' = UserResponse("register", status, message, 0,
                                       email, username, role_id)
               /\ UNCHANGED req
       IN  IF invalid # ""
           THEN refuse(422, invalid)
           ELSE IF \E u \in users : u.email = email
           THEN refuse(400, "The user with this email already exists in the system.")
           ELSE call_create_user(w, "register", 0, email, username, role_id)
    /\ UNCHANGED <<tables, clock, submitted, calc, accounts>>

\* as user_service_create_user, on a table without the unique indexes
user_service_create_user_no_unique_index(w) ==
    /\ req[w].pc = "create_user"
    /\ LET role_id == IF req[w].role_id = None THEN RoleEnum_USER
                      ELSE req[w].role_id
           db_obj == User(users_autoinc, req[w].email, req[w].username, role_id)
       IN  /\ users' = users \cup {db_obj}
           /\ resp' = UserResponse(req[w].op, 200, "User created successfully",
                                   req[w].sub, req[w].email, req[w].username,
                                   req[w].role_id)
    /\ users_autoinc' = users_autoinc + 1
    /\ req' = [req EXCEPT ![w] = Idle]
    /\ UNCHANGED <<tables, clock, submitted, calc, refresh_tokens, issued>>

\* user_service.create_user: the default role when none is given, then the
\* insert and its commit. The unique indexes of users.email and users.username
\* refuse the insert of a taken value: rollback, 422. The id the refused insert
\* drew is not given back.
user_service_create_user(w) ==
    /\ req[w].pc = "create_user"
    /\ LET role_id == IF req[w].role_id = None THEN RoleEnum_USER
                      ELSE req[w].role_id
           db_obj == User(users_autoinc, req[w].email, req[w].username, role_id)
       IN  IF \E u \in users : u.email = db_obj.email \/ u.username = db_obj.username
           THEN /\ users' = users
                /\ resp' = UserResponse(req[w].op, 422, "Database error occurred",
                                        req[w].sub, req[w].email, req[w].username,
                                        req[w].role_id)
           ELSE /\ users' = users \cup {db_obj}
                /\ resp' = UserResponse(req[w].op, 200, "User created successfully",
                                        req[w].sub, req[w].email, req[w].username,
                                        req[w].role_id)
    /\ users_autoinc' = users_autoinc + 1
    /\ req' = [req EXCEPT ![w] = Idle]
    /\ UNCHANGED <<tables, clock, submitted, calc, refresh_tokens, issued>>

\* ------------------------------------------ GET, PUT, DELETE /users/{user_id}

\* the response of a request that names a user id, with the request it answers
\* and, for a read that succeeds, the row returned
UserIdResponse(op, status, message, sub, user_id, email, username, data) ==
    [op |-> op, status |-> status, message |-> message, sub |-> sub,
     user_id |-> user_id, email |-> email, username |-> username, data |-> data]

\* as get_user, without the filter on the id
get_user_unfiltered(user_id) == first(users)

\* user_service.get_user
get_user(user_id) == first({u \in users : u.id = user_id})

\* as read_user, without the test of ownership
read_user_any_caller(w, sub, user_id) ==
    /\ Free(w)
    /\ LET current_user == get_current_active_user(sub)
           user == get_user(user_id)
           answer(status, message, data) ==
               resp' = UserIdResponse("read_user", status, message, sub,
                                      user_id, "", "", data)
       IN  IF current_user.status # 200
           THEN answer(current_user.status, current_user.message, NoRow)
           ELSE IF user = NoRow
           THEN answer(404, "User not found", NoRow)
           ELSE answer(200, "Success", user)
    /\ UNCHANGED <<tables, clock, req, submitted, calc, accounts>>

\* GET /users/{user_id}: one read transaction
read_user(w, sub, user_id) ==
    /\ Free(w)
    /\ LET current_user == get_current_active_user(sub)
           user == get_user(user_id)
           answer(status, message, data) ==
               resp' = UserIdResponse("read_user", status, message, sub,
                                      user_id, "", "", data)
       IN  IF current_user.status # 200
           THEN answer(current_user.status, current_user.message, NoRow)
           ELSE IF user = NoRow
           THEN answer(404, "User not found", NoRow)
           ELSE IF user.id # current_user.user.id /\ ~is_admin(current_user.user)
           THEN answer(401, "You are not authorized to get a user", NoRow)
           ELSE answer(200, "Success", user)
    /\ UNCHANGED <<tables, clock, req, submitted, calc, accounts>>

\* UserUpdate: the validators of the fields that are given ("" stands for a
\* field left out), email first
UserUpdate(email, username) ==
    IF email # "" /\ \E u \in users : u.email = email
    THEN "email already exists"
    ELSE IF username # "" /\ \E u \in users : u.username = username
    THEN "username already exists"
    ELSE ""

\* PUT /users/{user_id} up to the call of the service: the dependency, the
\* validation of the body, the look-up of the user and the test of ownership.
update_user(w, sub, user_id, email, username) ==
    /\ Free(w)
    /\ LET current_user == get_current_active_user(sub)
           invalid == UserUpdate(email, username)
           user == get_user(user_id)
           refuse(status, message) ==
               /\ resp' = UserIdResponse("update_user", status, message, sub,
                                         user_id, email, username, NoRow)
               /\ UNCHANGED req
       IN  IF current_user.status # 200
           THEN refuse(current_user.status, current_user.message)
           ELSE IF invalid # ""
           THEN refuse(422, invalid)
           ELSE IF user = NoRow
           THEN refuse(404, "User not found")
           ELSE IF user.id # current_user.user.id /\ ~is_admin(current_user.user)
           THEN refuse(401, "You are not authorized to update a user")
           ELSE /\ req' = [req EXCEPT ![w] =
                              [pc |-> "update_user", sub |-> sub,
                               user_id |-> user_id, db_obj |-> user,
                               email |-> email, username |-> username]]
                /\ resp' = NoResponse
    /\ UNCHANGED <<tables, clock, submitted, calc, accounts>>

\* user_service.update_user: the given fields are assigned to the loaded
\* object, the UPDATE names the columns that changed, then commit and refresh.
\* Nothing catches a database error: a row that is gone, or a value the unique
\* indexes refuse, ends the request with 500.
user_service_update_user(w) ==
    /\ req[w].pc = "update_user"
    /\ LET loaded == req[w].db_obj
           assigned == [loaded EXCEPT
                           !.email = IF req[w].email = "" THEN @ ELSE req[w].email,
                           !.username = IF req[w].username = "" THEN @
                                        ELSE req[w].username]
           current == get_user(loaded.id)
           updated == orm_update(current, loaded, assigned)
           answer(status, message) ==
               resp' = UserIdResponse("update_user", status, message, req[w].sub,
                                      req[w].user_id, req[w].email,
                                      req[w].username, NoRow)
       IN  IF current = NoRow
           THEN /\ answer(500, "Internal Server Error")
                /\ UNCHANGED users
           ELSE IF \E u \in users :
                       /\ u.id # current.id
                       /\ u.email = updated.email \/ u.username = updated.username
           THEN /\ answer(500, "Internal Server Error")
                /\ UNCHANGED users
           ELSE /\ users' = (users \ {current}) \cup {updated}
                /\ answer(200, "User updated successfully")
    /\ req' = [req EXCEPT ![w] = Idle]
    /\ UNCHANGED <<tables, clock, submitted, calc, users_autoinc, refresh_tokens, issued>>

\* DELETE /users/{user_id} up to the call of the service
delete_user(w, sub, user_id) ==
    /\ Free(w)
    /\ LET current_user == get_current_active_user(sub)
           user_to_delete == get_user(user_id)
           refuse(status, message) ==
               /\ resp' = UserIdResponse("delete_user", status, message, sub,
                                         user_id, "", "", NoRow)
               /\ UNCHANGED req
       IN  IF current_user.status # 200
           THEN refuse(current_user.status, current_user.message)
           ELSE IF ~is_admin(current_user.user)
           THEN refuse(401, "You are not authorized to delete a user")
           ELSE IF user_to_delete = NoRow
           THEN refuse(404, "User not found")
           ELSE IF user_to_delete.id = current_user.user.id
           THEN refuse(400, "Admins cannot delete themselves")
           ELSE /\ req' = [req EXCEPT ![w] =
                              [pc |-> "delete_user", sub |-> sub,
                               user_id |-> user_id, db_obj |-> user_to_delete]]
                /\ resp' = NoResponse
    /\ UNCHANGED <<tables, clock, submitted, calc, accounts>>

\* user_service.delete_user: db.delete(db_user) with the cascades of User
\* (refresh_tokens, vocabularies with their examples and spaced_repetitions,
\* spaced_repetitions), then commit. review_sessions.user_id and
\* review_sessions.vocabulary_id reference the rows without a cascade: while
\* the user has review sessions the DELETE is refused and, nothing catching
\* the error, the request ends with 500. A row that another request deleted
\* in the meantime is still seen by the transaction's snapshot; its DELETE
\* matches nothing and the request is answered as a success.
user_service_delete_user(w) ==
    /\ req[w].pc = "delete_user"
    /\ LET id == req[w].db_obj.id
           vocabularies == {voc.id : voc \in {v \in vocabulary : v.user_id = id}}
           answer(status, message) ==
               resp' = UserIdResponse("delete_user", status, message, req[w].sub,
                                      req[w].user_id, "", "", NoRow)
       IN  IF \E i \in 1..Len(review_sessions) :
                  \/ review_sessions[i].user_id = id
                  \/ review_sessions[i].vocabulary_id \in vocabularies
           THEN /\ answer(500, "Internal Server Error")
                /\ UNCHANGED <<users, refresh_tokens, vocabulary, examples,
                               spaced_repetition>>
           ELSE /\ users' = {u \in users : u.id # id}
                /\ refresh_tokens' = {t \in refresh_tokens : t.user_id # id}
                /\ vocabulary' = {v \in vocabulary : v.user_id # id}
                /\ examples' = {e \in examples : e.vocabulary_id \notin vocabularies}
                /\ spaced_repetition' =
                       {sr \in spaced_repetition :
                           sr.user_id # id /\ sr.vocabulary_id \notin vocabularies}
                /\ answer(200, "User deleted successfully")
    /\ req' = [req EXCEPT ![w] = Idle]
    /\ UNCHANGED <<review_sessions, autoinc, clock, submitted, calc, users_autoinc, issued>>

\* SpecUsers: requests that create users, handled concurrently, on the seeded
\* database.
CreateUser == \E w \in Workers, sub \in Subs, email \in Emails,
                 username \in Usernames, role_id \in RoleIds :
                  create_user(w, sub, email, username, role_id)

Register == \E w \in Workers, email \in Emails, username \in Usernames,
               role_id \in RoleIds :
                register(w, email, username, role_id)

UserServiceCreateUser == \E w \in Workers : user_service_create_user(w)

UsersNext ==
    \/ CreateUser
    \/ Register
    \/ UserServiceCreateUser

SpecUsers == Init /\ [][UsersNext]_vars

\* SpecManage: requests that read, update and delete users, one request at
\* a time. It starts from the seeded database after the admin has created a
\* second admin, "ann".
ManageInit ==
    /\ vocabulary = {}
    /\ examples = {}
    /\ spaced_repetition = {}
    /\ review_sessions = <<>>
    /\ autoinc = 1
    /\ clock = 0
    /\ req = [w \in Workers |-> Idle]
    /\ resp = UserResponse("create_user", 200, "User created successfully", 1,
                           "ann@example.com", "ann", RoleEnum_ADMIN)
    /\ submitted = [p \in Users \X VocabIds |-> 0]
    /\ calc = NoCalc
    /\ users = seeded_users \cup
                   {User(3, "ann@example.com", "ann", RoleEnum_ADMIN)}
    /\ users_autoinc = 4
    /\ refresh_tokens = {}
    /\ issued = {}

UserIds == 1..MaxUserId
\* bodies of PUT /users/{user_id}; "" is a field left out
UpdateEmails == {"", "user@example.com", "bob@example.com"}
UpdateUsernames == {"", "bob"}

ReadUser == \E w \in Workers, sub \in Subs, user_id \in UserIds :
                read_user(w, sub, user_id)

UpdateUser == \E w \in Workers, sub \in Subs, user_id \in UserIds,
                 email \in UpdateEmails, username \in UpdateUsernames :
                  update_user(w, sub, user_id, email, username)

UserServiceUpdateUser == \E w \in Workers : user_service_update_user(w)

DeleteUser == \E w \in Workers, sub \in Subs, user_id \in UserIds :
                  delete_user(w, sub, user_id)

UserServiceDeleteUser == \E w \in Workers : user_service_delete_user(w)

ManageNext ==
    \/ AllIdle /\ ReadUser
    \/ AllIdle /\ UpdateUser
    \/ UserServiceUpdateUser
    \/ AllIdle /\ DeleteUser
    \/ UserServiceDeleteUser

SpecManage == ManageInit /\ [][ManageNext]_vars

\* SpecAdmins: the requests that update and delete users, from the state with
\* two admins; delete requests overlap with every other request.
AdminsNext ==
    \/ DeleteUser
    \/ UserServiceDeleteUser
    \/ AllIdle /\ UpdateUser
    \/ UserServiceUpdateUser

SpecAdmins == ManageInit /\ [][AdminsNext]_vars

\* the stored users delete users while the owners review their items
PurgeReviewLoad == \E w \in Workers, u \in Users, v \in VocabIds, r \in ReviewRequests :
                      /\ Len(review_sessions) + InFlight({"review"}) < MaxPurgeSessions
                      /\ get_current_active_user(u).status = 200
                      /\ update_review_performance_load(w, u, v, r[1], r[2])

PurgeNext ==
    \/ PurgeReviewLoad
    \/ ReviewCommit
    \/ DeleteUser
    \/ UserServiceDeleteUser

SpecPurge == ItemInit /\ [][PurgeNext]_vars

\* ------------------------------------------------------------------- /auth
\* settings.REFRESH_TOKEN_EXPIRE_DAYS
REFRESH_TOKEN_EXPIRE_DAYS == 7

\* the seconds of one tick at which a request may run
Seconds == {0, 1}

\* datetime.now(timezone.utc) of a request that runs at second s of the tick
now(s) == <<clock, s>>

\* a < b on instants <<tick, second>>
Before(a, b) == a[1] < b[1] \/ (a[1] = b[1] /\ a[2] < b[2])

\* a JWT is the encoding of its payload: equal payloads give equal strings
NoToken == [sub |-> 0, exp |-> <<0, 0>>, type |-> "none"]
\* a string that jwt.decode rejects (wrong signature or not a JWT)
BadToken == [sub |-> 0, exp |-> <<0, 0>>, type |-> "undecodable"]

\* create_access_token: ACCESS_TOKEN_EXPIRE_MINUTES (15) is less than a tick,
\* the token lasts to the end of the second of its issue
create_access_token(sub, at) == [sub |-> sub, exp |-> at, type |-> "access"]

\* the refresh token create_and_store_refresh_token encodes
refresh_jwt(user_id, at) ==
    [sub |-> user_id,
     exp |-> <<at[1] + REFRESH_TOKEN_EXPIRE_DAYS * TicksPerDay, at[2]>>,
     type |-> "refresh"]

\* a row of table refresh_tokens (is_revoked defaults to False)
RefreshToken(user_id, token, expires_at) ==
    [user_id |-> user_id, token |-> token, expires_at |-> expires_at,
     is_revoked |-> FALSE]

\* verify_token: jwt.decode checks the signature and the "exp" claim
verify_token(token, at) ==
    IF token.type \in {"undecodable", "none"} \/ Before(token.exp, at)
    THEN [ok |-> FALSE, payload |-> NoToken]
    ELSE [ok |-> TRUE, payload |-> token]

\* as verify_refresh_token, without the filter on is_revoked
verify_refresh_token_revoked_too(token, at) ==
    LET decoded == verify_token(token, at)
        rows == {t \in refresh_tokens :
                    /\ t.token = token
                    /\ t.user_id = decoded.payload.sub
                    /\ Before(at, t.expires_at)}
    IN  IF ~decoded.ok \/ decoded.payload.type # "refresh" \/ rows = {}
        THEN NoRow
        ELSE CHOOSE t \in rows : TRUE

\* verify_refresh_token: the stored row of the token, or NoRow where the code
\* raises UnauthorizedException
verify_refresh_token(token, at) ==
    LET decoded == verify_token(token, at)
        rows == {t \in refresh_tokens :
                    /\ t.token = token
                    /\ t.user_id = decoded.payload.sub
                    /\ t.is_revoked = FALSE
                    /\ Before(at, t.expires_at)}
    IN  IF ~decoded.ok \/ decoded.payload.type # "refresh" \/ rows = {}
        THEN NoRow
        ELSE CHOOSE t \in rows : TRUE

\* revoke_refresh_token: the table after the UPDATE
revoke_refresh_token(token) ==
    {IF t.token = token /\ t.is_revoked = FALSE
     THEN [t EXCEPT !.is_revoked = TRUE]
     ELSE t : t \in refresh_tokens}

TokenResponse(op, status, message, at, presented, access_token, refresh_token) ==
    [op |-> op, status |-> status, message |-> message, at |-> at,
     presented |-> presented, access_token |-> access_token,
     refresh_token |-> refresh_token]

\* POST /auth/login at second s; password_ok: the password matches the hash
login(email, password_ok, s) ==
    LET user == first({u \in users : u.email = email})
        at == now(s)
        access == create_access_token(user.id, at)
        refresh == refresh_jwt(user.id, at)
        answer(status, message, a, r) ==
            resp' = TokenResponse("login", status, message, at, NoToken, a, r)
    IN  /\ IF user = NoRow \/ ~password_ok
           THEN /\ answer(401, "Incorrect email or password", NoToken, NoToken)
                /\ UNCHANGED <<refresh_tokens, issued>>
           ELSE IF \E t \in refresh_tokens : t.token = refresh
           THEN \* unique index on refresh_tokens.token: IntegrityError
                /\ answer(500, "Internal Server Error", NoToken, NoToken)
                /\ UNCHANGED <<refresh_tokens, issued>>
           ELSE /\ refresh_tokens' = refresh_tokens \cup
                       {RefreshToken(user.id, refresh, refresh.exp)}
                /\ issued' = issued \cup {access, refresh}
                /\ answer(200, "", access, refresh)
        /\ UNCHANGED <<tables, clock, req, submitted, calc, users, users_autoinc>>

\* POST /auth/refresh-token at second s
refresh_token(token, s) ==
    LET at == now(s)
        db_token == verify_refresh_token(token, at)
    IN  /\ resp' = IF db_token = NoRow
                   THEN TokenResponse("refresh_token", 401, "Unauthorized", at,
                            token, NoToken, NoToken)
                   ELSE TokenResponse("refresh_token", 200, "", at, token,
                            create_access_token(db_token.user_id, at), token)
        /\ UNCHANGED <<tables, clock, req, submitted, calc, accounts>>

\* POST /auth/logout at second s
logout(token, s) ==
    LET at == now(s)
        decoded == verify_token(token, at)
    IN  /\ IF ~decoded.ok
           THEN /\ resp' = TokenResponse("logout", 400, "Invalid token", at,
                               token, NoToken, NoToken)
                /\ UNCHANGED refresh_tokens
           ELSE /\ refresh_tokens' = revoke_refresh_token(token)
                /\ resp' = TokenResponse("logout", 200, "Successfully logged out",
                               at, token, NoToken, NoToken)
        /\ UNCHANGED <<tables, clock, req, submitted, calc, users, users_autoinc,
                       issued>>

\* REFRESH_TOKEN_EXPIRE_DAYS pass without a request
Week ==
    /\ clock < REFRESH_TOKEN_EXPIRE_DAYS * TicksPerDay
    /\ clock' = clock + REFRESH_TOKEN_EXPIRE_DAYS * TicksPerDay
    /\ resp' = NoResponse
    /\ UNCHANGED <<tables, req, submitted, calc>>
    /\ UNCHANGED accounts

LoginEmails == {"admin@example.com", "user@example.com", "ann@example.com"}
\* what a client can present: a token a login handed out, or any other string
Presented == issued \cup {BadToken}

Login == \E email \in LoginEmails, password_ok \in BOOLEAN, s \in Seconds :
            /\ Cardinality(refresh_tokens) < MaxTokens
            /\ login(email, password_ok, s)
RefreshTokenRequest == \E token \in Presented, s \in Seconds : refresh_token(token, s)
Logout == \E token \in Presented, s \in Seconds : logout(token, s)

\* DELETE /users/{user_id} sent by a seeded user for a seeded user
TokensDeleteUser == \E w \in Workers, sub \in Users, user_id \in Users :
                        AllIdle /\ delete_user(w, sub, user_id)

TokensNext ==
    \/ Login
    \/ RefreshTokenRequest
    \/ Logout
    \/ Week
    \/ TokensDeleteUser
    \/ UserServiceDeleteUser

SpecTokens == ItemInit /\ [][TokensNext]_vars

\* ------------------------------------------------------------- properties
Reviewed == calc # NoCalc /\ calc.phase = "reviewed"
PassScores == {PERFORMANCE_HARD, PERFORMANCE_GOOD, PERFORMANCE_EASY}

\* C1: from initialize on, after every recordReview the ease factor of the
\* item lies within [1.3, 2.5].
EaseFactorClamped ==
    calc # NoCalc =>
        /\ calc.state.ease_factor >= 130
        /\ calc.state.ease_factor <= 250

\* C1 witness: a "hard" review of an item already at 1.3 has been clamped.
ClampedAtMinimum ==
    /\ Reviewed
    /\ calc.performance_score = PERFORMANCE_HARD
    /\ calc.before.ease_factor = 130
    /\ calc.state.ease_factor = 130

\* C2: a review with score 0 sets review_count to 0, leaves ease_factor as
\* it was, schedules the item one day after now and yields proficiency NEW.
ResetOnFailure ==
    (Reviewed /\ calc.performance_score = 0) =>
        /\ calc.state.review_count = 0
        /\ calc.state.ease_factor = calc.before.ease_factor
        /\ calc.state.next_review_date = calc.now + TicksPerDay
        /\ calc.state.proficiency_level = 0

\* C2 witness: "again" on a FAMILIAR item of ease factor 2.0.
FamiliarItemFailed ==
    /\ Reviewed
    /\ calc.performance_score = 0
    /\ calc.before.review_count >= 5
    /\ calc.before.proficiency_level = 2
    /\ calc.before.ease_factor = 200

\* C3: every review of a state of the data-model domain schedules the item
\* at least one day after now.
MonotonicDueDate ==
    (/\ Reviewed
     /\ calc.before.ease_factor >= 130
     /\ calc.before.ease_factor <= 250
     /\ calc.before.review_count >= 0)
        => /\ calc.state.next_review_date > calc.now
           /\ calc.state.next_review_date >= calc.now + TicksPerDay

\* C3 witness: a first pass review (interval exactly one day) at a time
\* after the start.
FirstPassOneDay ==
    /\ Reviewed
    /\ calc.performance_score \in PassScores
    /\ calc.before.review_count = 0
    /\ calc.now > 0
    /\ calc.state.next_review_date = calc.now + TicksPerDay

Clamp(x) == IF x < 130 THEN 130 ELSE IF x > 250 THEN 250 ELSE x
Adjusted(ease, score) ==
    Clamp(ease + (IF score = 1 THEN -20 ELSE IF score = 3 THEN 15 ELSE 0))
IntervalDays(count, ease) ==
    IF count = 0 THEN 1 ELSE IF count = 1 THEN 6 ELSE (count * ease) \div 100

\* C5: a pass review (score 1, 2, 3) sets ease_factor to the clamped
\* adjustment (-0.2, 0, +0.15), schedules the item 1 day, 6 days or
\* floor(pre-update review_count * new ease_factor) days after now, and
\* increments review_count.
PassOutcome ==
    (Reviewed /\ calc.performance_score \in {1, 2, 3}) =>
        /\ calc.state.ease_factor =
               Adjusted(calc.before.ease_factor, calc.performance_score)
        /\ calc.state.next_review_date =
               calc.now + TicksPerDay *
                   IntervalDays(calc.before.review_count, calc.state.ease_factor)
        /\ calc.state.review_count = calc.before.review_count + 1

\* C5 witness: "easy" on {ease_factor 2.5, review_count 2}: ease factor
\* clamped at 2.5, interval floor(2 * 2.5) = 5 days, review_count 3.
EasyAtTwoReviews ==
    /\ Reviewed
    /\ calc.performance_score = 3
    /\ calc.before.ease_factor = 250
    /\ calc.before.review_count = 2
    /\ calc.state.ease_factor = 250
    /\ calc.state.next_review_date = calc.now + 5 * TicksPerDay
    /\ calc.state.review_count = 3

Classify(count) ==
    IF count = 0 THEN 0 ELSE IF count <= 4 THEN 1 ELSE IF count <= 9 THEN 2 ELSE 3

\* C4: in every state reached by saves and reviews, the stored
\* proficiency_level of an item is the classification of its stored
\* review_count (0 NEW, 1..4 LEARNING, 5..9 FAMILIAR, 10 and more MASTERED).
ProficiencyMatchesCount ==
    \A sr \in spaced_repetition :
        sr.proficiency_level = Classify(sr.review_count)

\* The performance scores recorded for a (user, item) pair, oldest first.
RECURSIVE ScoresOf(_, _, _)
ScoresOf(sessions, user_id, vocabulary_id) ==
    IF sessions = <<>> THEN <<>>
    ELSE LET rest == ScoresOf(Tail(sessions), user_id, vocabulary_id)
             h == Head(sessions)
         IN  IF h.user_id = user_id /\ h.vocabulary_id = vocabulary_id
             THEN <<h.performance_score>> \o rest
             ELSE rest

\* <<ease_factor, review_count>> after the reviews of scores, one after the
\* other, on a freshly created item.
RECURSIVE Replay(_)
Replay(scores) ==
    IF scores = <<>> THEN <<EASY_FACTOR, 0>>
    ELSE LET n == Len(scores)
             prev == Replay(SubSeq(scores, 1, n - 1))
             r == calculate_next_review(scores[n], prev[1], prev[2], 0)
         IN  <<r.new_ease_factor, r.new_review_count>>

Permutations(n) ==
    {p \in [1..n -> 1..n] : \A i, j \in 1..n : p[i] = p[j] => i = j}

\* C7: once the submitted reviews of a (user, item) pair have completed, its
\* ease_factor and review_count are those of the reviews applied one after
\* the other in some order, and every review has its audit record.
SerializableReviews ==
    AllIdle =>
        \A sr \in spaced_repetition :
            LET h == ScoresOf(review_sessions, sr.user_id, sr.vocabulary_id)
            IN  /\ Len(h) = submitted[<<sr.user_id, sr.vocabulary_id>>]
                /\ \E p \in Permutations(Len(h)) :
                       Replay([i \in 1..Len(h) |-> h[p[i]]])
                           = <<sr.ease_factor, sr.review_count>>

\* C6: a review request whose performance_score is outside {0,1,2,3} or
\* whose time_spent is negative is answered 422 with the rejected values,
\* is not taken up for processing, and changes no ReviewState and no
\* ReviewSession.
InvalidReviewRejected ==
    [][\A r \in {x \in ReviewRequests : x[1] \notin {0, 1, 2, 3} \/ x[2] < 0} :
          \A w \in {x \in Workers : req[x].pc = "idle"} :
              \A u \in Users, v \in VocabIds :
                  update_review_performance_load(w, u, v, r[1], r[2])
                      => /\ resp' = Response("review", 422, r[1], r[2])
                         /\ UNCHANGED <<spaced_repetition, review_sessions, req>>]_vars

\* C6 witness: score 5 has been rejected for an item that has a ReviewState.
InvalidScoreRejected ==
    /\ resp = Response("review", 422, 5, 7)
    /\ spaced_repetition # {}

\* C8: the audit records change only by a successful review appending one
\* record that carries the request's score and time spent; existing records
\* are never modified or removed; and each pair has as many records as
\* successful submissions.
AuditAppendOnly ==
    /\ [](\A u \in Users, v \in VocabIds :
              Len(ScoresOf(review_sessions, u, v)) = submitted[<<u, v>>])
    /\ [][/\ \/ review_sessions' = review_sessions
             \/ /\ Len(review_sessions') = Len(review_sessions) + 1
                /\ SubSeq(review_sessions', 1, Len(review_sessions)) = review_sessions
          /\ (resp'.op = "review" /\ resp'.status = 200)
                 <=> review_sessions' # review_sessions
          /\ review_sessions' # review_sessions =>
                 \E w \in Workers :
                     LET added == review_sessions'[Len(review_sessions')]
                     IN  /\ req[w].pc = "review"
                         /\ req'[w].pc = "idle"
                         /\ added.user_id = req[w].user_id
                         /\ added.vocabulary_id = req[w].vocabulary_id
                         /\ added.performance_score = req[w].performance_score
                         /\ added.time_spent = req[w].time_spent]_vars

\* C8 witness: a pair with two audit records after two successful reviews.
TwoReviewsRecorded ==
    \E u \in Users, v \in VocabIds :
        /\ submitted[<<u, v>>] = 2
        /\ Len(ScoresOf(review_sessions, u, v)) = 2
        /\ \A i \in 1..Len(review_sessions) : review_sessions[i].time_spent = 7

\* The length of the trailing run of non-zero scores.
RECURSIVE TrailingRun(_)
TrailingRun(scores) ==
    IF scores = <<>> THEN 0
    ELSE IF scores[Len(scores)] = 0 THEN 0
    ELSE 1 + TrailingRun(SubSeq(scores, 1, Len(scores) - 1))

\* C9: with the reviews submitted one at a time, review_count is the number
\* of reviews recorded for the item since its most recent "again".
ReviewCountIsStreak ==
    \A sr \in spaced_repetition :
        sr.review_count =
            TrailingRun(ScoresOf(review_sessions, sr.user_id, sr.vocabulary_id))

\* C9 witness: a pass, an "again", and a pass again: review_count 1 of 3.
StreakAfterReset ==
    \E sr \in spaced_repetition :
        LET h == ScoresOf(review_sessions, sr.user_id, sr.vocabulary_id)
        IN  /\ Len(h) = 3
            /\ h[1] # 0
            /\ h[2] = 0
            /\ h[3] # 0
            /\ sr.review_count = 1

ReviewNotFound ==
    [][/\ \/ /\ resp' = Response("review", 404, 0, 0)
             /\ UNCHANGED <<spaced_repetition, review_sessions, req>>
          \/ \A r \in {x \in ReviewRequests : ReviewPerformanceRequest(x[1], x[2])} :
                 \A w \in {x \in Workers : req[x].pc = "idle"} :
                     \A u \in Users, v \in VocabIds :
                         ~(/\ ~\E sr \in spaced_repetition :
                                   sr.user_id = u /\ sr.vocabulary_id = v
                           /\ update_review_performance_load(w, u, v, r[1], r[2]))
       /\ (resp'.op = "review" /\ resp'.status # 200)
              => UNCHANGED <<spaced_repetition, review_sessions>>
       /\ (resp'.op = "review" /\ resp'.status = 200)
              => /\ Len(review_sessions') = Len(review_sessions) + 1
                 /\ {sr.id : sr \in spaced_repetition'}
                        = {sr.id : sr \in spaced_repetition}]_vars

\* C11 witness: a review was answered 404 while both items are stored and one
\* of them has been reviewed: the request was for an item of the other user
\* or for an item that does not exist.
ReviewOfForeignItemRefused ==
    /\ resp = Response("review", 404, 0, 0)
    /\ Cardinality(spaced_repetition) = 2
    /\ review_sessions # <<>>

\* The items of a user that are due at a time: those whose ReviewState has
\* next_review_date at or before it.
DueItems(user_id, asOf) ==
    {voc \in vocabulary :
        /\ voc.user_id = user_id
        /\ \E sr \in spaced_repetition :
               /\ sr.vocabulary_id = voc.id
               /\ sr.user_id = user_id
               /\ sr.next_review_date <= asOf}

\* C12: the due-items read of a user returns every vocabulary item of the
\* user whose ReviewState has next_review_date <= the time of the query.
DueItemsReturned ==
    resp.op = "today_review" => DueItems(resp.user_id, resp.now) \subseteq resp.data

\* C13: a ReviewState created at any time has ease_factor 2.5, review_count
\* 0, proficiency_level NEW and next_review_date one day after its creation.
InitializeValues ==
    (calc # NoCalc /\ calc.phase = "initialized") =>
        /\ calc.state.ease_factor = 250
        /\ calc.state.review_count = 0
        /\ calc.state.proficiency_level = 0
        /\ calc.state.next_review_date = calc.now + TicksPerDay

\* C13 witness: a ReviewState created after the clock has advanced.
InitializedLater ==
    /\ calc # NoCalc
    /\ calc.phase = "initialized"
    /\ calc.now = 1
    /\ calc.state.next_review_date = 1 + TicksPerDay

\* The ReviewStates of a user.
StatesOf(user_id) == {sr \in spaced_repetition : sr.user_id = user_id}

\* The four bucket counts of a dashboard answer are those of the user's
\* ReviewStates by proficiency_level, and sum to their number.
BucketsCounted ==
    resp.op = "dashboard" =>
        LET d == resp.data
            Bucket(level) ==
                Cardinality({sr \in StatesOf(resp.user_id) :
                                sr.proficiency_level = level})
        IN  /\ d.new = Bucket(0)
            /\ d.learning = Bucket(1)
            /\ d.familiar = Bucket(2)
            /\ d.mastered = Bucket(3)
            /\ d.new + d.learning + d.familiar + d.mastered
                   = Cardinality(StatesOf(resp.user_id))
            /\ StatesOf(resp.user_id) = {} =>
                   /\ d.new = 0 /\ d.learning = 0 /\ d.familiar = 0
                   /\ d.mastered = 0 /\ d.today_reviews = 0

\* C14: the dashboard statistics of a user count each ReviewState of the
\* user in the bucket of its proficiency_level, the four counts sum to the
\* number of the user's ReviewStates, the due count is the number of the
\* user's items due at the time of the query, and with no ReviewState every
\* count is zero.
DashboardCounts ==
    /\ BucketsCounted
    /\ resp.op = "dashboard" =>
           resp.data.today_reviews
               = Cardinality(DueItems(resp.user_id, resp.now))

CalendarDate(t) == t - (t % TicksPerDay)

\* The positions in review_sessions of the sessions of a user in the window
\* of the last days days before a time.
Window(user_id, asOf, days) ==
    {i \in 1..Len(review_sessions) :
        /\ review_sessions[i].user_id = user_id
        /\ review_sessions[i].session_date >= asOf - days * TicksPerDay}

RECURSIVE SumTimeSpent(_)
SumTimeSpent(positions) ==
    IF positions = {} THEN 0
    ELSE LET i == CHOOSE i \in positions : TRUE
         IN  review_sessions[i].time_spent + SumTimeSpent(positions \ {i})

RECURSIVE SumTotalReviews(_)
SumTotalReviews(daily) ==
    IF daily = <<>> THEN 0
    ELSE Head(daily).total_reviews + SumTotalReviews(Tail(daily))

\* C16: the progress report of a user has one summary per calendar date with
\* a session of the user in the window, in ascending date order; the
\* summary's total_reviews, correct_answers and time_spent are the number of
\* that date's sessions, the number of them with score >= 2 and the sum of
\* their time spent; correct_answers <= total_reviews, and the totals sum to
\* the number of sessions in the window.
ProgressSummaries ==
    resp.op = "learning_progress" =>
        LET daily == resp.data.daily
            W == Window(resp.user_id, resp.now, resp.data.days)
            On(d) == {i \in W : CalendarDate(review_sessions[i].session_date) = d}
        IN  /\ {daily[k].date : k \in 1..Len(daily)}
                   = {CalendarDate(review_sessions[i].session_date) : i \in W}
            /\ \A j, k \in 1..Len(daily) : j < k => daily[j].date < daily[k].date
            /\ \A k \in 1..Len(daily) :
                   /\ daily[k].total_reviews = Cardinality(On(daily[k].date))
                   /\ daily[k].correct_answers =
                          Cardinality({i \in On(daily[k].date) :
                              review_sessions[i].performance_score >= 2})
                   /\ daily[k].time_spent = SumTimeSpent(On(daily[k].date))
                   /\ daily[k].correct_answers <= daily[k].total_reviews
            /\ SumTotalReviews(daily) = Cardinality(W)

\* C16 witness: a report of two dates, an "again" on the first and a correct
\* answer on the second.
ProgressOverTwoDates ==
    /\ resp.op = "learning_progress"
    /\ Len(resp.data.daily) = 2
    /\ resp.data.daily[1].correct_answers = 0
    /\ resp.data.daily[2].correct_answers = 1
    /\ resp.data.daily[2].time_spent = 7

\* C17: a review of one (user, item) pair leaves the ReviewState of every
\* other pair as it was; and however the reviews of different pairs are
\* interleaved, once they have completed each pair has the ease_factor,
\* the review_count and the proficiency_level of its own reviews applied one
\* after the other.
PairsIndependent ==
    /\ [](AllIdle =>
             \A sr \in spaced_repetition :
                 LET own == Replay(ScoresOf(review_sessions, sr.user_id,
                                       sr.vocabulary_id))
                 IN  /\ <<sr.ease_factor, sr.review_count>> = own
                     /\ sr.proficiency_level = Classify(own[2]))
    /\ [][\A w \in Workers :
             (req[w].pc = "review" /\ req'[w].pc = "idle") =>
                 \A sr \in spaced_repetition :
                     <<sr.user_id, sr.vocabulary_id>>
                         # <<req[w].user_id, req[w].vocabulary_id>>
                     => sr \in spaced_repetition']_vars

\* C17 witness: a review of one pair is committed while a review of the other
\* pair, loaded before it, is still in progress.
ReviewsOfTwoPairsInterleaved ==
    /\ resp = Response("review", 200, 0, 0)
    /\ \E w \in Workers :
           /\ req[w].pc = "review"
           /\ review_sessions[Len(review_sessions)].vocabulary_id
                  # req[w].vocabulary_id
           /\ review_sessions[Len(review_sessions)].performance_score = 1

\* C18: a ReviewState exists only as long as its vocabulary item does; it is
\* removed only by a successful delete of that item, and never by a review,
\* a due query, the statistics or the progress report.
ReviewStateLifetime ==
    /\ [](\A sr \in spaced_repetition :
             \E voc \in vocabulary : voc.id = sr.vocabulary_id)
    /\ [][/\ \A sr \in spaced_repetition :
                (\A o \in spaced_repetition' : o.id # sr.id) =>
                    /\ resp' = Response("delete", 200, 0, 0)
                    /\ \E voc \in vocabulary \ vocabulary' :
                           voc.id = sr.vocabulary_id
          /\ resp'.op \in {"review", "today_review", "dashboard",
                            "learning_progress"} =>
                {sr.id : sr \in spaced_repetition'}
                    = {sr.id : sr \in spaced_repetition}]_vars

\* C18 witness: one item was deleted and its ReviewState is gone, while the
\* other item, reviewed twice, keeps its ReviewState.
DeletedItemHasNoReviewState ==
    /\ resp = Response("delete", 200, 0, 0)
    /\ Cardinality(vocabulary) = 1
    /\ Cardinality(spaced_repetition) = 1
    /\ Len(review_sessions) = 2

\* the stored, active user a token names is an admin / is not an admin
AdminCaller(sub) ==
    \E u \in users : u.id = sub /\ u.is_active /\ u.role_id = RoleEnum_ADMIN

NonAdminCaller(sub) ==
    \E u \in users : u.id = sub /\ u.is_active /\ u.role_id # RoleEnum_ADMIN

EmailTaken(email) == \E u \in users : u.email = email

UsernameTaken(username) == \E u \in users : u.username = username

\* a body that the users endpoint accepts from an admin
Acceptable(email, username, role_id) ==
    /\ ~EmailTaken(email)
    /\ ~UsernameTaken(username)
    /\ role_id \in roles \cup {None}

OnlyDueItemsReturned ==
    resp.op = "today_review" =>
        \A voc \in resp.data :
            /\ \E sr \in spaced_repetition :
                   sr.vocabulary_id = voc.id /\ sr.user_id = resp.user_id
            /\ \A sr \in spaced_repetition :
                   sr.vocabulary_id = voc.id /\ sr.user_id = resp.user_id =>
                       sr.next_review_date <= resp.now

\* C30 witness: the read returned an item that was reviewed before and is due
\* again.
ReviewedItemReturnedWhenDue ==
    /\ resp.op = "today_review"
    /\ \E voc \in resp.data :
           \E i \in 1..Len(review_sessions) :
               /\ review_sessions[i].vocabulary_id = voc.id
               /\ review_sessions[i].user_id = resp.user_id

\* C27: across one review the proficiency level becomes NEW on score 0, and
\* on a pass stays or advances by exactly one level; it never skips a level
\* and falls only by a reset to NEW. MASTERED is entered exactly by the pass
\* that brings the run of consecutive passes (review_count) to 10, and is held
\* exactly while that run is 10 or longer.
ProficiencySteps ==
    (calc # NoCalc /\ calc.phase = "reviewed") =>
        LET old == calc.before.proficiency_level
            new == calc.state.proficiency_level
            score == calc.performance_score
        IN  /\ score = PERFORMANCE_AGAIN => new = PROFICIENCY_NEW
            /\ score # PERFORMANCE_AGAIN => new \in {old, old + 1}
            /\ new < old => score = PERFORMANCE_AGAIN /\ new = PROFICIENCY_NEW
            /\ (new = PROFICIENCY_MASTERED /\ old # PROFICIENCY_MASTERED)
                   <=> (score # PERFORMANCE_AGAIN /\ calc.state.review_count = 10)
            /\ new = PROFICIENCY_MASTERED <=> calc.state.review_count >= 10

\* C27 witness: the tenth pass in a row takes the item from FAMILIAR to
\* MASTERED.
TenthPassMasters ==
    /\ calc # NoCalc
    /\ calc.phase = "reviewed"
    /\ calc.before.proficiency_level = PROFICIENCY_FAMILIAR
    /\ calc.state.proficiency_level = PROFICIENCY_MASTERED
    /\ calc.state.review_count = 10

\* Two pass reviews in a row, the ease factor being the same before and after
\* both.
TwoPassesAtFixedEase ==
    /\ Reviewed
    /\ calc.performance_score \in PassScores
    /\ calc.previous.performance_score \in PassScores
    /\ calc.previous.current_ease_factor = calc.previous.new_ease_factor
    /\ calc.previous.new_ease_factor = calc.before.ease_factor
    /\ calc.before.ease_factor = calc.state.ease_factor

\* the days the current review scheduled
ScheduledDays == (calc.state.next_review_date - calc.now) \div TicksPerDay

\* C28 as stated: along a run of pass reviews at a fixed ease factor the
\* scheduled interval never decreases from one review to the next.
IntervalNeverDecreases ==
    TwoPassesAtFixedEase => ScheduledDays >= calc.previous.interval

\* C28: along a run of pass reviews at a fixed ease factor the scheduled
\* interval never decreases from one review to the next, except from the
\* second review of the run (6 days) to the third (floor(2 * ease_factor), 2 to
\* 5 days), where it always decreases.
IntervalNeverDecreasesAfterThird ==
    TwoPassesAtFixedEase =>
        IF calc.before.review_count = 2
        THEN /\ calc.previous.interval = 6
             /\ ScheduledDays = (2 * calc.state.ease_factor) \div 100
             /\ ScheduledDays >= 2
             /\ ScheduledDays <= 5
        ELSE ScheduledDays >= calc.previous.interval

\* C28 witness: the fourth pass at ease factor 2.5 schedules 7 days after the
\* third scheduled 5.
FourthIntervalLonger ==
    /\ TwoPassesAtFixedEase
    /\ calc.before.review_count = 3
    /\ calc.state.ease_factor = 250
    /\ calc.previous.interval = 5
    /\ ScheduledDays = 7

\* C25: no user holds two vocabulary items with the same word_phrase, and a
\* save of a word_phrase the user already holds is answered 400 and creates
\* nothing, also when saves of the same user and word overlap.
NoDuplicateWords ==
    /\ [](\A v1, v2 \in vocabulary :
             (v1.user_id = v2.user_id /\ v1.word_phrase = v2.word_phrase)
                 => v1 = v2)
    /\ [][\A w \in Workers :
             (/\ req[w].pc = "save"
              /\ req'[w].pc = "idle"
              /\ \E voc \in vocabulary :
                     /\ voc.user_id = req[w].user_id
                     /\ voc.word_phrase = req[w].word_phrase)
                 => /\ resp'.status # 200
                    /\ vocabulary' = vocabulary]_vars

\* C26: a delete of an existing item by its owner succeeds and removes the
\* item with its examples and its ReviewState, whether or not the item has
\* been reviewed.
DeleteRemovesItem ==
    [][\A w \in Workers :
          (/\ req[w].pc = "delete"
           /\ req'[w].pc = "idle"
           /\ req[w].row \in vocabulary)
              => /\ resp' = Response("delete", 200, 0, 0)
                 /\ \A voc \in vocabulary' : voc.id # req[w].row.id
                 /\ \A e \in examples' : e.vocabulary_id # req[w].row.id
                 /\ \A sr \in spaced_repetition' :
                        sr.vocabulary_id # req[w].row.id]_vars

\* the stored user of an id, or NoRow
Stored(user_id) ==
    IF \E u \in users : u.id = user_id
    THEN CHOOSE u \in users : u.id = user_id
    ELSE NoRow

\* a body of an update that the validators accept
UpdateAcceptable(email, username) ==
    /\ email = "" \/ ~EmailTaken(email)
    /\ username = "" \/ ~UsernameTaken(username)

\* a row after the fields an update gives have been set
Applied(user, email, username) ==
    [user EXCEPT !.email = IF email = "" THEN @ ELSE email,
                 !.username = IF username = "" THEN @ ELSE username]

AdminRemains ==
    \E u \in users : u.is_active /\ u.role_id = RoleEnum_ADMIN

\* C22: only admins delete users. A delete request by a caller who is not an
\* admin, for any id, their own included, is answered 401 "You are not
\* authorized to delete a user" and leaves every user stored; the delete by an
\* admin of another stored user is answered 200 and removes that user.
OnlyAdminsDeleteUsers ==
    [][resp'.op = "delete_user" =>
          LET target == Stored(resp'.user_id)
              sub == resp'.sub
          IN  /\ NonAdminCaller(sub) =>
                    /\ resp'.status = 401
                    /\ resp'.message = "You are not authorized to delete a user"
                    /\ users' = users
              /\ (/\ AdminCaller(sub)
                  /\ target # NoRow
                  /\ target.id # sub
                  /\ \E w \in Workers : req[w].pc = "delete_user" /\ req'[w].pc = "idle") =>
                    /\ resp'.status = 200
                    /\ users' = users \ {target}]_vars

\* the presented token has a stored row that a refresh at instant "at" accepts
Usable(rows, token, at) ==
    /\ token.type = "refresh"
    /\ \E t \in rows :
          /\ t.token = token
          /\ t.user_id = token.sub
          /\ ~t.is_revoked
          /\ Before(at, t.expires_at)

Unrevoked(rows, token) == \E t \in rows : t.token = token /\ ~t.is_revoked

\* C24: a logout answered 200 leaves no unrevoked row of the presented token;
\* the is_revoked flag of a stored token never returns to false, and a token
\* handed out that has no unrevoked row (revoked, or removed with its user)
\* never has one again; a refresh-token request is answered 200 with a new
\* access token exactly when the presented token is of type "refresh" and its
\* row is stored for its user, not revoked and not expired, and is answered
\* 401 without an access token otherwise. So no refresh-token request after
\* the logout of a token is answered with an access token.
RevokedTokenStaysRejected ==
    /\ [][(resp'.op = "logout" /\ resp'.status = 200) =>
             ~Unrevoked(refresh_tokens', resp'.presented)]_vars
    /\ [][/\ \A t \in refresh_tokens : t.is_revoked =>
                \A n \in refresh_tokens' : n.token = t.token => n.is_revoked
          /\ \A token \in issued :
                ~Unrevoked(refresh_tokens, token) => ~Unrevoked(refresh_tokens', token)]_vars
    /\ [][resp'.op = "refresh_token" =>
             LET token == resp'.presented
                 usable == Usable(refresh_tokens, token, resp'.at)
             IN  /\ refresh_tokens' = refresh_tokens
                 /\ usable =>
                       /\ resp'.status = 200
                       /\ resp'.access_token = create_access_token(token.sub, resp'.at)
                       /\ resp'.refresh_token = token
                 /\ ~usable =>
                       /\ resp'.status = 401
                       /\ resp'.access_token = NoToken]_vars

\* C24 witness: the regular user's refresh token, not yet expired, has just
\* been refused with 401 and its stored row is revoked.
RefreshAfterLogoutRefused ==
    /\ resp.op = "refresh_token"
    /\ resp.status = 401
    /\ resp.access_token = NoToken
    /\ resp.presented.type = "refresh"
    /\ resp.presented.sub = 2
    /\ \E t \in refresh_tokens :
          /\ t.token = resp.presented
          /\ t.is_revoked
          /\ Before(resp.at, t.expires_at)

====
